---- MODULE Spec2Model ----
(***************************************************************************)
(* The two Fusion add-in scripts of treasure-chest/scripts/fusion:         *)
(* export_all.run (export-lister) and read_parameters.run                  *)
(* (parameter-reader), run against a host design session.                  *)
(*                                                                         *)
(* Python strings are sequences of one-character strings.  A message box   *)
(* text is the single string the script passes to ui.messageBox, with its  *)
(* "\n" characters.  Parameter values are fixed-point, in hundredths.      *)
(***************************************************************************)
EXTENDS Integers, Sequences, FiniteSets, TLC

VARIABLES script, hasDesign, isSaved, occs, rootBodies, params,
          pc, ui, i, exported, lines, boxes, reads, exc, result

host == <<script, hasDesign, isSaved, occs, rootBodies, params>>
vars == <<script, hasDesign, isSaved, occs, rootBodies, params,
          pc, ui, i, exported, lines, boxes, reads, exc, result>>

----------------------------------------------------------------------------
(* Bounds of the host sessions explored.                                   *)
MaxOccs == 2
MaxBodies == 2
MaxRootBodies == 2
MaxNameLen == 3
MaxParams == 2
MaxValueK == 1

Alphabet == {"H", "h", "2", "-", " "}

RECURSIVE SeqsOfLen(_, _)
SeqsOfLen(S, n) ==
    IF n = 0 THEN {<<>>}
    ELSE {Append(s, x) : s \in SeqsOfLen(S, n - 1), x \in S}

SeqsUpTo(S, n) == UNION {SeqsOfLen(S, k) : k \in 0..n}

Names == SeqsUpTo(Alphabet, MaxNameLen)

ComponentNames == {<<"H", "u", "l", "l", " ", "P", "l", "a", "t", "e">>, <<"M", "a", "s", "t">>}

BodyNames == {<<"K", "e", "e", "l">>, <<"l", "i", "d", " ", "2">>}

Components == [name : ComponentNames, bodies : 0..MaxBodies]

Units == {<<"m", "m">>, <<"c", "m">>, <<>>, <<"M", "M">>}

Values == {k * 250 : k \in (-MaxValueK)..MaxValueK}
              \cup {-7, 7}

UserParameters ==
    [name : {<<"W", "a", "l", "l", " ", "T">>}, value : Values, unit : Units,
     expression : {<<"w">>}]

----------------------------------------------------------------------------
(* Python string operations used by the scripts.                           *)

UpperLetters == <<"A", "B", "C", "D", "E", "F", "G", "H", "I", "J", "K", "L", "M",
                  "N", "O", "P", "Q", "R", "S", "T", "U", "V", "W", "X", "Y", "Z">>
LowerLetters == <<"a", "b", "c", "d", "e", "f", "g", "h", "i", "j", "k", "l", "m",
                  "n", "o", "p", "q", "r", "s", "t", "u", "v", "w", "x", "y", "z">>
DigitChars == <<"0", "1", "2", "3", "4", "5", "6", "7", "8", "9">>

(* str.lower() on one ASCII character *)
LowerChar(c) ==
    IF \E k \in 1..26 : UpperLetters[k] = c
    THEN LowerLetters[CHOOSE k \in 1..26 : UpperLetters[k] = c]
    ELSE c

(* str.lower() *)
Lower(s) == [k \in 1..Len(s) |-> LowerChar(s[k])]

(* str.replace(old, new) for one-character old and new *)
Replace(s, old, new) == [k \in 1..Len(s) |-> IF s[k] = old THEN new ELSE s[k]]

NormalizeKeepCase(name) == Replace(name, " ", "-")

(* name.lower().replace(' ', '-') *)
Normalize(name) == Replace(Lower(name), " ", "-")

VERSION == <<"v", "0", "1">>
MATERIAL == <<"p", "l", "a">>

(* f"treasure-chest_{name}_{VERSION}_{MATERIAL}.stl" *)
Filename(norm) ==
    <<"t", "r", "e", "a", "s", "u", "r", "e", "-", "c", "h", "e", "s", "t", "_">> \o norm \o <<"_">> \o VERSION \o <<"_">> \o MATERIAL \o <<".", "s", "t", "l">>

(* sep.join(ls) *)
RECURSIVE Join(_, _)
Join(ls, sep) ==
    IF ls = <<>> THEN <<>>
    ELSE IF Len(ls) = 1 THEN ls[1]
    ELSE ls[1] \o sep \o Join(Tail(ls), sep)

(* str(n) for n >= 0 *)
RECURSIVE NatToStr(_)
NatToStr(n) ==
    IF n < 10 THEN <<DigitChars[n + 1]>>
    ELSE NatToStr(n \div 10) \o <<DigitChars[(n % 10) + 1]>>

Abs(n) == IF n < 0 THEN -n ELSE n

(* f"{v:.2f}" for a value v of h hundredths *)
Format2f(h) ==
    (IF h < 0 THEN <<"-">> ELSE <<>>)
        \o NatToStr(Abs(h) \div 100) \o <<".">>
        \o <<DigitChars[((Abs(h) % 100) \div 10) + 1], DigitChars[(Abs(h) % 10) + 1]>>

----------------------------------------------------------------------------
(* Message box texts.                                                      *)

NoDesignMsg == <<"N", "o", " ", "a", "c", "t", "i", "v", "e", " ", "d", "e", "s", "i", "g", "n", " ", "f", "o", "u", "n", "d", ".">>
NotSavedMsg == <<"P", "l", "e", "a", "s", "e", " ", "s", "a", "v", "e", " ", "t", "h", "e", " ", "d", "o", "c", "u", "m", "e", "n", "t", " ", "f", "i", "r", "s", "t", ".">>
NoBodiesMsg == <<"N", "o", " ", "b", "o", "d", "i", "e", "s", " ", "f", "o", "u", "n", "d", " ", "t", "o", " ", "e", "x", "p", "o", "r", "t", ".">>
NoParamsMsg == <<"N", "o", " ", "u", "s", "e", "r", " ", "p", "a", "r", "a", "m", "e", "t", "e", "r", "s", " ", "d", "e", "f", "i", "n", "e", "d", ".", "\n", "\n", "A", "d", "d", " ", "p", "a", "r", "a", "m", "e", "t", "e", "r", "s", " ", "v", "i", "a", ":", "\n", "M", "o", "d", "i", "f", "y", " ", ">", " ", "C", "h", "a", "n", "g", "e", " ", "P", "a", "r", "a", "m", "e", "t", "e", "r", "s", " ", ">", " ", "+", " ", "(", "U", "s", "e", "r", " ", "P", "a", "r", "a", "m", "e", "t", "e", "r", "s", ")">>

WouldExportMsgOffByOne(ex) ==
    <<"W", "o", "u", "l", "d", " ", "e", "x", "p", "o", "r", "t", " ">> \o NatToStr(Len(ex) + 1) \o <<" ", "f", "i", "l", "e", "s", ":", "\n">> \o Join(ex, <<"\n">>)

(* f'Would export {len(exported)} files:\n' + '\n'.join(exported) *)
WouldExportMsg(ex) ==
    <<"W", "o", "u", "l", "d", " ", "e", "x", "p", "o", "r", "t", " ">> \o NatToStr(Len(ex)) \o <<" ", "f", "i", "l", "e", "s", ":", "\n">> \o Join(ex, <<"\n">>)

(* traceback.format_exc(): the trace names the call that raised *)
FormatExc(e) == <<"T", "r", "a", "c", "e", "b", "a", "c", "k", " ", "(", "m", "o", "s", "t", " ", "r", "e", "c", "e", "n", "t", " ", "c", "a", "l", "l", " ", "l", "a", "s", "t", ")", ":", " ">> \o e

(* f'Failed:\n{traceback.format_exc()}' *)
FailedMsg(e) == <<"F", "a", "i", "l", "e", "d", ":", "\n">> \o FormatExc(e)

HostError == <<"h", "o", "s", "t", " ", "c", "a", "l", "l">>
MessageBoxError == <<"m", "e", "s", "s", "a", "g", "e", "B", "o", "x">>

----------------------------------------------------------------------------
(* The host session at the moment the user triggers an add-in.             *)

Locals ==
    /\ pc = "get_app"
    /\ ui = "None"
    /\ i = 0
    /\ exported = <<>>
    /\ lines = <<>>
    /\ boxes = <<>>
    /\ reads = {}
    /\ exc = <<>>
    /\ result = "running"

(* export_all on a design with a few components and root bodies *)
InitExport ==
    /\ script = "export_all"
    /\ hasDesign = TRUE
    /\ isSaved \in BOOLEAN
    /\ occs \in SeqsUpTo(Components, MaxOccs)
    /\ rootBodies \in SeqsUpTo(BodyNames, MaxRootBodies)
    /\ params = <<>>
    /\ Locals

(* export_all on a saved design with a single arbitrarily named item *)
InitNames ==
    /\ script = "export_all"
    /\ hasDesign = TRUE
    /\ isSaved = TRUE
    /\ \E n \in Names :
          \/ occs = <<[name |-> n, bodies |-> 1]>> /\ rootBodies = <<>>
          \/ occs = <<>> /\ rootBodies = <<n>>
    /\ params = <<>>
    /\ Locals

(* read_parameters *)
InitParams ==
    /\ script = "read_parameters"
    /\ hasDesign = TRUE
    /\ isSaved = TRUE
    /\ occs = <<>>
    /\ rootBodies = <<>>
    /\ params \in SeqsUpTo(UserParameters, MaxParams)
    /\ Locals

(* either script when the active product is not a design: there is no      *)
(* component tree and no parameter collection                              *)
InitNoDesign ==
    /\ script \in {"export_all", "read_parameters"}
    /\ hasDesign = FALSE
    /\ isSaved \in BOOLEAN
    /\ occs = <<>>
    /\ rootBodies = <<>>
    /\ params = <<>>
    /\ Locals

Init == InitExport \/ InitNames \/ InitParams \/ InitNoDesign

----------------------------------------------------------------------------
(* export_all.run                                                          *)

ExportAll_GetApp ==
    /\ script = "export_all" /\ pc = "get_app"
    /\ reads' = reads \cup {"Application.get"}
    /\ pc' = "get_ui"
    /\ UNCHANGED <<host, ui, i, exported, lines, boxes, exc, result>>

ExportAll_GetUI ==
    /\ script = "export_all" /\ pc = "get_ui"
    /\ reads' = reads \cup {"userInterface"}
    /\ ui' = "ui"
    /\ pc' = "get_design"
    /\ UNCHANGED <<host, i, exported, lines, boxes, exc, result>>

ExportAll_GetDesign ==
    /\ script = "export_all" /\ pc = "get_design"
    /\ reads' = reads \cup {"activeProduct"}
    /\ IF ~hasDesign
       THEN /\ boxes' = Append(boxes, NoDesignMsg)
            /\ pc' = "done"
            /\ result' = "returned"
       ELSE /\ pc' = "get_doc"
            /\ UNCHANGED <<boxes, result>>
    /\ UNCHANGED <<host, ui, i, exported, lines, exc>>

ExportAll_GetDocNoSavedCheck ==
    /\ script = "export_all" /\ pc = "get_doc"
    /\ reads' = reads \cup {"activeDocument"}
    /\ pc' = "get_root"
    /\ UNCHANGED <<host, ui, i, exported, lines, exc, boxes, result>>

ExportAll_GetDoc ==
    /\ script = "export_all" /\ pc = "get_doc"
    /\ reads' = reads \cup {"activeDocument", "isSaved"}
    /\ IF ~isSaved
       THEN /\ boxes' = Append(boxes, NotSavedMsg)
            /\ pc' = "done"
            /\ result' = "returned"
       ELSE /\ pc' = "get_root"
            /\ UNCHANGED <<boxes, result>>
    /\ UNCHANGED <<host, ui, i, exported, lines, exc>>

ExportAll_GetRoot ==
    /\ script = "export_all" /\ pc = "get_root"
    /\ reads' = reads \cup {"rootComponent", "exportManager", "allOccurrences"}
    /\ exported' = <<>>
    /\ i' = 1
    /\ pc' = "occ_loop"
    /\ UNCHANGED <<host, ui, lines, boxes, exc, result>>

ExportAll_OccLoopNoSkip ==
    /\ script = "export_all" /\ pc = "occ_loop"
    /\ IF i <= Len(occs)
       THEN /\ reads' = reads \cup {"component", "component.bRepBodies"}
            /\ exported' = Append(exported, Filename(Normalize(occs[i].name)))
            /\ i' = i + 1
            /\ pc' = "occ_loop"
       ELSE /\ reads' = reads \cup {"bRepBodies"}
            /\ i' = 1
            /\ pc' = "body_loop"
            /\ UNCHANGED exported
    /\ UNCHANGED <<host, ui, lines, boxes, exc, result>>

ExportAll_OccLoopPerBody ==
    /\ script = "export_all" /\ pc = "occ_loop"
    /\ IF i <= Len(occs)
       THEN /\ reads' = reads \cup {"component", "component.bRepBodies"}
            /\ exported' = exported \o
                   [k \in 1..occs[i].bodies |-> Filename(Normalize(occs[i].name))]
            /\ i' = i + 1
            /\ pc' = "occ_loop"
       ELSE /\ reads' = reads \cup {"bRepBodies"}
            /\ i' = 1
            /\ pc' = "body_loop"
            /\ UNCHANGED exported
    /\ UNCHANGED <<host, ui, lines, boxes, exc, result>>

ExportAll_OccLoopPrepend ==
    /\ script = "export_all" /\ pc = "occ_loop"
    /\ IF i <= Len(occs)
       THEN /\ reads' = reads \cup {"component", "component.bRepBodies"}
            /\ exported' = IF occs[i].bodies = 0
                           THEN exported
                           ELSE <<Filename(Normalize(occs[i].name))>> \o exported
            /\ i' = i + 1
            /\ pc' = "occ_loop"
       ELSE /\ reads' = reads \cup {"bRepBodies"}
            /\ i' = 1
            /\ pc' = "body_loop"
            /\ UNCHANGED exported
    /\ UNCHANGED <<host, ui, lines, boxes, exc, result>>

(* one iteration of `for occ in root_comp.allOccurrences`, or its end *)
ExportAll_OccLoop ==
    /\ script = "export_all" /\ pc = "occ_loop"
    /\ IF i <= Len(occs)
       THEN /\ reads' = reads \cup {"component", "component.bRepBodies"}
            /\ exported' = IF occs[i].bodies = 0
                           THEN exported
                           ELSE Append(exported, Filename(Normalize(occs[i].name)))
            /\ i' = i + 1
            /\ pc' = "occ_loop"
       ELSE /\ reads' = reads \cup {"bRepBodies"}
            /\ i' = 1
            /\ pc' = "body_loop"
            /\ UNCHANGED exported
    /\ UNCHANGED <<host, ui, lines, boxes, exc, result>>

(* one iteration of `for body in root_comp.bRepBodies`, or its end *)
ExportAll_BodyLoop ==
    /\ script = "export_all" /\ pc = "body_loop"
    /\ IF i <= Len(rootBodies)
       THEN /\ exported' = Append(exported, Filename(Normalize(rootBodies[i])))
            /\ i' = i + 1
            /\ pc' = "body_loop"
       ELSE /\ pc' = "report"
            /\ UNCHANGED <<exported, i>>
    /\ UNCHANGED <<host, ui, lines, boxes, reads, exc, result>>

ExportAll_Report ==
    /\ script = "export_all" /\ pc = "report"
    /\ boxes' = Append(boxes, IF exported # <<>>
                              THEN WouldExportMsg(exported)
                              ELSE NoBodiesMsg)
    /\ pc' = "done"
    /\ result' = "returned"
    /\ UNCHANGED <<host, ui, i, exported, lines, reads, exc>>

(* a host call other than messageBox raises inside the try block *)
ExportAll_HostRaises ==
    /\ script = "export_all"
    /\ pc \in {"get_app", "get_ui", "get_design", "get_doc", "get_root",
               "occ_loop", "body_loop"}
    /\ exc' = HostError
    /\ pc' = "except"
    /\ UNCHANGED <<host, ui, i, exported, lines, boxes, reads, result>>

ExportAll_CallsMessageBox ==
    \/ pc = "get_design" /\ ~hasDesign
    \/ pc = "get_doc" /\ isSaved = FALSE
    \/ pc = "report"

ExportAll_Message ==
    IF pc = "get_design" THEN NoDesignMsg
    ELSE IF pc = "get_doc" THEN NotSavedMsg
    ELSE IF exported # <<>> THEN WouldExportMsg(exported)
    ELSE NoBodiesMsg

(* a ui.messageBox call of the try block is made and raises *)
ExportAll_MessageBoxRaises ==
    /\ script = "export_all"
    /\ ExportAll_CallsMessageBox
    /\ boxes' = Append(boxes, ExportAll_Message)
    /\ exc' = MessageBoxError
    /\ pc' = "except"
    /\ UNCHANGED <<host, ui, i, exported, lines, reads, result>>

ExportAll_ExceptNoReport ==
    /\ script = "export_all" /\ pc = "except"
    /\ pc' = "done"
    /\ result' = "returned"
    /\ UNCHANGED <<host, ui, i, exported, lines, boxes, reads, exc>>

(* except: if ui: ui.messageBox(Failed...) and the call returns *)
ExportAll_Except ==
    /\ script = "export_all" /\ pc = "except"
    /\ boxes' = IF ui # "None" THEN Append(boxes, FailedMsg(exc)) ELSE boxes
    /\ pc' = "done"
    /\ result' = "returned"
    /\ UNCHANGED <<host, ui, i, exported, lines, reads, exc>>

(* except: the ui.messageBox call of the handler itself raises *)
ExportAll_ExceptRaises ==
    /\ script = "export_all" /\ pc = "except"
    /\ ui # "None"
    /\ boxes' = Append(boxes, FailedMsg(exc))
    /\ pc' = "done"
    /\ result' = "propagated"
    /\ UNCHANGED <<host, ui, i, exported, lines, reads, exc>>

----------------------------------------------------------------------------
(* read_parameters.run                                                     *)

ReadParameters_GetApp ==
    /\ script = "read_parameters" /\ pc = "get_app"
    /\ reads' = reads \cup {"Application.get"}
    /\ pc' = "get_ui"
    /\ UNCHANGED <<host, ui, i, exported, lines, boxes, exc, result>>

ReadParameters_GetUI ==
    /\ script = "read_parameters" /\ pc = "get_ui"
    /\ reads' = reads \cup {"userInterface"}
    /\ ui' = "ui"
    /\ pc' = "get_design"
    /\ UNCHANGED <<host, i, exported, lines, boxes, exc, result>>

ReadParameters_GetDesign ==
    /\ script = "read_parameters" /\ pc = "get_design"
    /\ reads' = reads \cup {"activeProduct"}
    /\ IF ~hasDesign
       THEN /\ boxes' = Append(boxes, NoDesignMsg)
            /\ pc' = "done"
            /\ result' = "returned"
       ELSE /\ pc' = "get_params"
            /\ UNCHANGED <<boxes, result>>
    /\ UNCHANGED <<host, ui, i, exported, lines, exc>>

TableHeader == <<<<"U", "s", "e", "r", " ", "P", "a", "r", "a", "m", "e", "t", "e", "r", "s", ":">>, [k \in 1..40 |-> "-"]>>

ReadParameters_GetParamsNoCountCheck ==
    /\ script = "read_parameters" /\ pc = "get_params"
    /\ reads' = reads \cup {"userParameters"}
    /\ lines' = TableHeader
    /\ i' = 1
    /\ pc' = "param_loop"
    /\ UNCHANGED <<host, ui, exported, exc, boxes, result>>

(* user_params = design.userParameters; the count check; the header *)
ReadParameters_GetParams ==
    /\ script = "read_parameters" /\ pc = "get_params"
    /\ reads' = reads \cup {"userParameters"}
    /\ IF Len(params) = 0
       THEN /\ boxes' = Append(boxes, NoParamsMsg)
            /\ pc' = "done"
            /\ result' = "returned"
            /\ UNCHANGED <<lines, i>>
       ELSE /\ lines' = TableHeader
            /\ i' = 1
            /\ pc' = "param_loop"
            /\ UNCHANGED <<boxes, result>>
    /\ UNCHANGED <<host, ui, exported, exc>>

DisplayValAnyCase(param) ==
    IF Lower(param.unit) = <<"m", "m">> THEN param.value * 10 ELSE param.value

(* the cm to mm conversion for display *)
DisplayVal(param) ==
    IF param.unit = <<"m", "m">> THEN param.value * 10 ELSE param.value

(* f'{name}: {display_val:.2f} {unit} (expr: {expr})' *)
ParamLine(param) ==
    param.name \o <<":", " ">> \o Format2f(DisplayVal(param)) \o <<" ">> \o param.unit
        \o <<" ", "(", "e", "x", "p", "r", ":", " ">> \o param.expression \o <<")">>

(* one iteration of `for param in user_params`, or its end *)
ReadParameters_ParamLoop ==
    /\ script = "read_parameters" /\ pc = "param_loop"
    /\ IF i <= Len(params)
       THEN /\ lines' = Append(lines, ParamLine(params[i]))
            /\ i' = i + 1
            /\ pc' = "param_loop"
       ELSE /\ pc' = "report"
            /\ UNCHANGED <<lines, i>>
    /\ UNCHANGED <<host, ui, exported, boxes, reads, exc, result>>

ReadParameters_Report ==
    /\ script = "read_parameters" /\ pc = "report"
    /\ boxes' = Append(boxes, Join(lines, <<"\n">>))
    /\ pc' = "done"
    /\ result' = "returned"
    /\ UNCHANGED <<host, ui, i, exported, lines, reads, exc>>

(* a host call other than messageBox raises inside the try block *)
ReadParameters_HostRaises ==
    /\ script = "read_parameters"
    /\ pc \in {"get_app", "get_ui", "get_design", "get_params", "param_loop"}
    /\ exc' = HostError
    /\ pc' = "except"
    /\ UNCHANGED <<host, ui, i, exported, lines, boxes, reads, result>>

ReadParameters_CallsMessageBox ==
    \/ pc = "get_design" /\ ~hasDesign
    \/ pc = "get_params" /\ Len(params) = 0
    \/ pc = "report"

ReadParameters_Message ==
    IF pc = "get_design" THEN NoDesignMsg
    ELSE IF pc = "get_params" THEN NoParamsMsg
    ELSE Join(lines, <<"\n">>)

(* a ui.messageBox call of the try block is made and raises *)
ReadParameters_MessageBoxRaises ==
    /\ script = "read_parameters"
    /\ ReadParameters_CallsMessageBox
    /\ boxes' = Append(boxes, ReadParameters_Message)
    /\ exc' = MessageBoxError
    /\ pc' = "except"
    /\ UNCHANGED <<host, ui, i, exported, lines, reads, result>>

ReadParameters_ExceptNoReport ==
    /\ script = "read_parameters" /\ pc = "except"
    /\ pc' = "done"
    /\ result' = "returned"
    /\ UNCHANGED <<host, ui, i, exported, lines, boxes, reads, exc>>

(* except: if ui: ui.messageBox(Failed...) and the call returns *)
ReadParameters_Except ==
    /\ script = "read_parameters" /\ pc = "except"
    /\ boxes' = IF ui # "None" THEN Append(boxes, FailedMsg(exc)) ELSE boxes
    /\ pc' = "done"
    /\ result' = "returned"
    /\ UNCHANGED <<host, ui, i, exported, lines, reads, exc>>

(* except: the ui.messageBox call of the handler itself raises *)
ReadParameters_ExceptRaises ==
    /\ script = "read_parameters" /\ pc = "except"
    /\ ui # "None"
    /\ boxes' = Append(boxes, FailedMsg(exc))
    /\ pc' = "done"
    /\ result' = "propagated"
    /\ UNCHANGED <<host, ui, i, exported, lines, reads, exc>>

----------------------------------------------------------------------------
(* A well-behaved host: no host call raises.                               *)
Next ==
    \/ ExportAll_GetApp
    \/ ExportAll_GetUI
    \/ ExportAll_GetDesign
    \/ ExportAll_GetDoc
    \/ ExportAll_GetRoot
    \/ ExportAll_OccLoop
    \/ ExportAll_BodyLoop
    \/ ExportAll_Report
    \/ ReadParameters_GetApp
    \/ ReadParameters_GetUI
    \/ ReadParameters_GetDesign
    \/ ReadParameters_GetParams
    \/ ReadParameters_ParamLoop
    \/ ReadParameters_Report

Spec == Init /\ [][Next]_vars

(* Any host call, messageBox included, may raise.                          *)
NextExc ==
    \/ Next
    \/ ExportAll_HostRaises
    \/ ExportAll_MessageBoxRaises
    \/ ExportAll_Except
    \/ ExportAll_ExceptRaises
    \/ ReadParameters_HostRaises
    \/ ReadParameters_MessageBoxRaises
    \/ ReadParameters_Except
    \/ ReadParameters_ExceptRaises

SpecExc == Init /\ [][NextExc]_vars

----------------------------------------------------------------------------
(* Reading a displayed text back.                                          *)

(* the lines of a text: text.split("\n") *)
RECURSIVE SplitLines(_)
SplitLines(s) ==
    IF \A k \in 1..Len(s) : s[k] # "\n" THEN <<s>>
    ELSE LET k == CHOOSE k \in 1..Len(s) :
                      s[k] = "\n" /\ \A j \in 1..(k - 1) : s[j] # "\n"
         IN  <<SubSeq(s, 1, k - 1)>> \o SplitLines(SubSeq(s, k + 1, Len(s)))

DigitVal(c) == (CHOOSE k \in 1..10 : DigitChars[k] = c) - 1

IsDigit(c) == \E k \in 1..10 : DigitChars[k] = c

RECURSIVE StrToNat(_)
StrToNat(s) ==
    IF s = <<>> THEN 0
    ELSE StrToNat(SubSeq(s, 1, Len(s) - 1)) * 10 + DigitVal(s[Len(s)])

(* a decimal text with exactly two decimals: [-]d+.dd *)
IsFixed2(s) ==
    LET body == IF s # <<>> /\ s[1] = "-" THEN Tail(s) ELSE s
        n == Len(body)
    IN  /\ n >= 4
        /\ body[n - 2] = "."
        /\ \A k \in 1..n : k # n - 2 => IsDigit(body[k])

(* the number of hundredths such a text denotes *)
Parse2f(s) ==
    LET neg == s[1] = "-"
        body == IF neg THEN Tail(s) ELSE s
        n == Len(body)
        mag == StrToNat(SubSeq(body, 1, n - 3)) * 100 + StrToNat(SubSeq(body, n - 1, n))
    IN  IF neg THEN -mag ELSE mag

IsUpper(c) == \E k \in 1..26 : UpperLetters[k] = c

NonEmpty(occ) == occ.bodies > 0

ExportRan == script = "export_all" /\ pc = "done" /\ hasDesign /\ isSaved

ParamsRan == script = "read_parameters" /\ pc = "done" /\ hasDesign

(* the filename lines of the report export_all displayed *)
ReportedFiles ==
    IF boxes[1] = NoBodiesMsg THEN <<>> ELSE Tail(SplitLines(boxes[1]))

RECURSIVE SumBodies(_)
SumBodies(os) == IF os = <<>> THEN 0 ELSE Head(os).bodies + SumBodies(Tail(os))

NonEmptyOccs == {k \in 1..Len(occs) : occs[k].bodies >= 1}

HasBody == rootBodies # <<>> \/ NonEmptyOccs # {}

RootReads == {"rootComponent", "exportManager", "allOccurrences", "component",
              "component.bRepBodies", "bRepBodies"}

----------------------------------------------------------------------------
(* C1, as stated: for every active, saved design the number of filenames   *)
(* in the report equals the number of bodies owned by the components of    *)
(* all occurrences plus the number of bodies owned by the root.            *)
C1_Original ==
    ExportRan => Len(ReportedFiles) = SumBodies(occs) + Len(rootBodies)

(* C1, amended: for every active, saved design the number of filenames in  *)
(* the report equals the number of occurrences whose component owns at     *)
(* least one body plus the number of bodies owned by the root: a           *)
(* component owning k >= 1 bodies yields one filename per occurrence.      *)
C1_Theorem ==
    ExportRan => Len(ReportedFiles) = Cardinality(NonEmptyOccs) + Len(rootBodies)

C1_Witness ==
    /\ ExportRan
    /\ \E k \in 1..Len(occs) : occs[k].bodies >= 2
    /\ rootBodies # <<>>
    /\ Len(ReportedFiles) = Cardinality(NonEmptyOccs) + Len(rootBodies)

(* the normalized form of a name, character by character *)
Hyphenated(n) ==
    [k \in 1..Len(n) |-> IF n[k] = " " THEN "-" ELSE LowerChar(n[k])]

NamesOfDesign ==
    {occs[k].name : k \in 1..Len(occs)} \cup {rootBodies[k] : k \in 1..Len(rootBodies)}

(* C2: for every active, saved design with at least one body the one       *)
(* message displayed is 'Would export N files:' followed by exactly N      *)
(* filename lines, each of the form                                        *)
(* treasure-chest_{normalized-name}_v01_pla.stl for the name of a          *)
(* component or root body of the design.                                   *)
C2_Theorem ==
    (ExportRan /\ HasBody) =>
        /\ Len(boxes) = 1
        /\ LET ls == SplitLines(boxes[1])
           IN  /\ ls[1] = <<"W", "o", "u", "l", "d", " ", "e", "x", "p", "o", "r", "t", " ">> \o NatToStr(Len(ls) - 1) \o <<" ", "f", "i", "l", "e", "s", ":">>
               /\ Len(ls) >= 2
               /\ \A k \in 2..Len(ls) :
                     \E n \in NamesOfDesign :
                        ls[k] = <<"t", "r", "e", "a", "s", "u", "r", "e", "-", "c", "h", "e", "s", "t", "_">> \o Hyphenated(n) \o <<"_", "v", "0", "1", "_", "p", "l", "a", ".", "s", "t", "l">>

C2_Witness ==
    /\ ExportRan
    /\ occs = <<[name |-> <<"H", "u", "l", "l", " ", "P", "l", "a", "t", "e">>, bodies |-> 1], [name |-> <<"M", "a", "s", "t">>, bodies |-> 0]>>
    /\ rootBodies = <<<<"K", "e", "e", "l">>>>
    /\ boxes = <<<<"W", "o", "u", "l", "d", " ", "e", "x", "p", "o", "r", "t", " ", "2", " ", "f", "i", "l", "e", "s", ":", "\n", "t", "r", "e", "a", "s", "u", "r", "e", "-", "c", "h", "e", "s", "t", "_", "h", "u", "l", "l", "-", "p", "l", "a", "t", "e", "_", "v", "0", "1", "_", "p", "l", "a", ".", "s", "t", "l", "\n", "t", "r", "e", "a", "s", "u", "r", "e", "-", "c", "h", "e", "s", "t", "_", "k", "e", "e", "l", "_", "v", "0", "1", "_", "p", "l", "a", ".", "s", "t", "l">>>>

(* C3: an occurrence whose component owns zero bodies adds nothing to the  *)
(* filename list, and a design whose every occurrence has an empty         *)
(* component and whose root owns no bodies gets the 'No bodies found to    *)
(* export.' message.                                                       *)
C3_Theorem ==
    /\ [][(script = "export_all" /\ pc = "occ_loop" /\ i <= Len(occs)
             /\ occs[i].bodies = 0) => exported' = exported]_vars
    /\ []((ExportRan /\ ~HasBody) => boxes = <<NoBodiesMsg>>)

C3_Witness ==
    /\ ExportRan
    /\ Len(occs) >= 2
    /\ \A k \in 1..Len(occs) : occs[k].bodies = 0
    /\ rootBodies = <<>>
    /\ boxes = <<NoBodiesMsg>>

(* C4: export_all checks the active design first and the saved flag        *)
(* second; when a gate fails the only output is that gate's message and    *)
(* nothing of the root component is read; without a design the saved flag  *)
(* is never consulted.                                                     *)
C4_Theorem ==
    script = "export_all" =>
        /\ ("isSaved" \in reads => "activeProduct" \in reads)
        /\ ~hasDesign =>
              /\ reads \cap (RootReads \cup {"activeDocument", "isSaved"}) = {}
              /\ exported = <<>>
              /\ boxes \in {<<>>, <<NoDesignMsg>>}
              /\ pc = "done" => boxes = <<NoDesignMsg>>
        /\ (hasDesign /\ ~isSaved) =>
              /\ reads \cap RootReads = {}
              /\ exported = <<>>
              /\ boxes \in {<<>>, <<NotSavedMsg>>}
              /\ pc = "done" => boxes = <<NotSavedMsg>>

C4_Witness ==
    /\ script = "export_all" /\ pc = "done"
    /\ hasDesign /\ ~isSaved
    /\ HasBody
    /\ boxes = <<NotSavedMsg>>
    /\ "isSaved" \in reads

(* C5, as stated: every invocation of run, on every path, exceptions of    *)
(* any host call included, performs exactly one message box call.          *)
C5_Original ==
    pc = "done" => Len(boxes) = 1

(* C5, amended: an invocation of run performs exactly one message box call *)
(* on every path on which the user-interface handle was acquired and no    *)
(* message box call of the try block raised; it performs none when         *)
(* acquiring the application or the user-interface handle raises, and two  *)
(* when a message box call of the try block raises.                        *)
C5_Theorem ==
    pc = "done" =>
        Len(boxes) = (IF ui = "None" THEN 0
                      ELSE IF exc = MessageBoxError THEN 2
                      ELSE 1)

C5_Witness ==
    /\ pc = "done"
    /\ exc = HostError
    /\ ui # "None"
    /\ Len(boxes) = 1

Last(s) == s[Len(s)]

IsFailedReport(m) ==
    LET ls == SplitLines(m)
    IN  /\ Len(ls) >= 2
        /\ ls[1] = <<"F", "a", "i", "l", "e", "d", ":">>
        /\ ls[2] # <<>>

(* C6, as stated: any exception raised by a host call is surfaced as a     *)
(* displayed 'Failed:' report and run returns normally, whichever call     *)
(* fails.                                                                  *)
C6_Original ==
    (pc = "done" /\ exc # <<>>) =>
        /\ result = "returned"
        /\ boxes # <<>>
        /\ IsFailedReport(Last(boxes))

(* C6, amended: an exception raised by a host call in the try block is     *)
(* caught; it is reported with a 'Failed:' message box carrying the trace  *)
(* when the user-interface handle had been acquired, and silently          *)
(* swallowed when it had not; run returns normally unless the message box  *)
(* call of the handler itself raises, and then that exception propagates.  *)
C6_Theorem ==
    pc = "done" =>
        /\ (exc # <<>> /\ ui # "None") =>
              /\ boxes # <<>>
              /\ IsFailedReport(Last(boxes))
        /\ (exc # <<>> /\ ui = "None") =>
              /\ boxes = <<>>
              /\ result = "returned"
        /\ exc = <<>> => result = "returned"
        /\ result \in {"returned", "propagated"}

C6_Witness ==
    /\ pc = "done"
    /\ script = "read_parameters"
    /\ exc = HostError
    /\ ui # "None"
    /\ result = "returned"
    /\ boxes = <<FailedMsg(HostError)>>

(* the value field of the report line of a parameter *)
ValueField(line, p) ==
    SubSeq(line, Len(p.name) + 3, Len(line) - (Len(p.unit) + Len(p.expression) + 10))

(* C7: the value displayed for a parameter is ten times its internal       *)
(* value when its unit is exactly 'mm' and its internal value for every    *)
(* other unit.                                                             *)
C7_Theorem ==
    (ParamsRan /\ params # <<>>) =>
        LET ls == SplitLines(boxes[1])
        IN  \A k \in 1..Len(params) :
               LET f == ValueField(ls[k + 2], params[k])
               IN  /\ IsFixed2(f)
                   /\ Parse2f(f) = IF params[k].unit = <<"m", "m">>
                                   THEN 10 * params[k].value
                                   ELSE params[k].value

C7_Witness ==
    /\ ParamsRan
    /\ Len(params) = 2
    /\ params[1].value = 250 /\ params[1].unit = <<"m", "m">>
    /\ params[2].value = 250 /\ params[2].unit = <<"M", "M">>
    /\ ValueField(SplitLines(boxes[1])[3], params[1]) = <<"2", "5", ".", "0", "0">>
    /\ ValueField(SplitLines(boxes[1])[4], params[2]) = <<"2", ".", "5", "0">>

(* C8: with an active design the guidance message is displayed exactly     *)
(* when there is no user parameter; otherwise the report is the two-line   *)
(* header followed by one line per parameter, in the host's order.         *)
C8_Theorem ==
    ParamsRan =>
        /\ Len(boxes) = 1
        /\ boxes[1] = NoParamsMsg <=> params = <<>>
        /\ params # <<>> =>
              LET ls == SplitLines(boxes[1])
              IN  /\ Len(ls) = 2 + Len(params)
                  /\ ls[1] = <<"U", "s", "e", "r", " ", "P", "a", "r", "a", "m", "e", "t", "e", "r", "s", ":">>
                  /\ ls[2] = [k \in 1..40 |-> "-"]
                  /\ \A k \in 1..Len(params) : ls[k + 2] = ParamLine(params[k])

C8_Witness ==
    /\ ParamsRan
    /\ params = <<>>
    /\ boxes = <<NoParamsMsg>>

(* the names the filenames are built from, in order *)
ExportedNames ==
    [k \in 1..Len(SelectSeq(occs, NonEmpty)) |-> SelectSeq(occs, NonEmpty)[k].name]
        \o rootBodies

(* the name part of a filename *)
NamePart(f) == SubSeq(f, 16, Len(f) - 12)

(* C9: the normalized name in every filename has no uppercase letter and   *)
(* no space, has the length of the name it comes from, is a fixed point    *)
(* of the normalization, and equals the name when the name had no          *)
(* uppercase letter and no space.                                          *)
C9_Theorem ==
    (script = "export_all" /\ pc \in {"report", "done"} /\ hasDesign /\ isSaved) =>
        /\ Len(exported) = Len(ExportedNames)
        /\ \A k \in 1..Len(exported) :
              LET r == NamePart(exported[k])
                  n == ExportedNames[k]
              IN  /\ Len(r) = Len(n)
                  /\ \A j \in 1..Len(r) : ~IsUpper(r[j]) /\ r[j] # " "
                  /\ Normalize(r) = r
                  /\ (\A j \in 1..Len(n) : ~IsUpper(n[j]) /\ n[j] # " ") => r = n

C9_Witness ==
    /\ ExportRan
    /\ occs = <<[name |-> <<"H", " ", "h">>, bodies |-> 1]>>
    /\ exported = <<<<"t", "r", "e", "a", "s", "u", "r", "e", "-", "c", "h", "e", "s", "t", "_", "h", "-", "h", "_", "v", "0", "1", "_", "p", "l", "a", ".", "s", "t", "l">>>>

(* C10: the reported filenames are those of the non-skipped occurrences,   *)
(* in the host's order, followed by those of the root bodies, in the       *)
(* host's order.                                                           *)
C10_Theorem ==
    ExportRan =>
        ReportedFiles =
            [k \in 1..Len(ExportedNames) |-> Filename(Normalize(ExportedNames[k]))]

C10_Witness ==
    /\ ExportRan
    /\ Len(occs) = 2 /\ occs[1].name # occs[2].name
    /\ occs[1].bodies > 0 /\ occs[2].bodies > 0
    /\ Len(rootBodies) = 2 /\ rootBodies[1] # rootBodies[2]
    /\ Len(ReportedFiles) = 4

====
